---- MODULE Spec2Model ----
(***************************************************************************)
(* Model of src/kml_utils.py: the colour helper _hex_to_kml_color, the     *)
(* ring writer _write_ring and the two encoders generate_kml and           *)
(* generate_shapefile.                                                     *)
(*                                                                         *)
(* Text is modelled as a sequence of one-character strings (or of longer   *)
(* literal chunks where the code emits a fixed piece of markup), so that   *)
(* stripping, slicing, replacing, formatting and escaping are computed on  *)
(* the characters as the code computes them.                               *)
(***************************************************************************)
EXTENDS Integers, Sequences, FiniteSets, TLC

VARIABLES
    hex_color,      \* _hex_to_kml_color: argument hex_color / generate_kml: fill_hex
    opacity,        \* argument opacity, as a number of 1/OpacityDen steps
    color_out,      \* what the last _hex_to_kml_color call returned (<<>>: no call yet)
    ring,           \* _write_ring: the caller's ring list (mutable)
    buf,            \* _write_ring: the caller's output buffer
    ring_call,      \* "none", "returned" or "IndexError"
    features,       \* the caller's feature list (its rings are mutable lists)
    region,         \* "QLD" or "NSW"
    base_name,      \* generate_shapefile: argument base_name
    kml_out,        \* the document the last generate_kml call returned (<<>>: no call yet)
    shp_out,        \* what the last generate_shapefile call wrote and returned
    tmp_dirs,       \* the temporary directories: name -> the call holding it (0: none)
    shp_calls       \* generate_shapefile calls in progress, statement by statement

vars == <<hex_color, opacity, color_out, ring, buf, ring_call,
          features, region, base_name, kml_out, shp_out, tmp_dirs, shp_calls>>

colorVars == <<hex_color, opacity, color_out>>
ringVars  == <<ring, buf, ring_call>>
encVars   == <<features, region, base_name, kml_out, shp_out>>
tmpVars   == <<tmp_dirs, shp_calls>>

--------------------------------------------------------------------------
(* Bounds of the model.                                                    *)

MaxHexLen == 6      \* most characters of a colour after its leading '#'s
MaxHashes == 2      \* most leading '#' characters of a colour
OpacityDen == 4     \* opacities are the multiples of 1/OpacityDen
MaxOpacity == 6     \* opacities range over -MaxOpacity/OpacityDen .. MaxOpacity/OpacityDen
MaxRingLen == 4     \* most vertices of a ring handed to _write_ring
MaxRingCalls == 2   \* most _write_ring calls on the same ring and buffer
MaxFeatures == 2    \* most features of a feature list
MaxParts == 2       \* most rings of a feature list, over all its features
MaxBaseLen == 3     \* most characters of a base_name
MaxCalls == 2       \* most generate_shapefile calls in progress at once
MaxDirs == 2        \* the names tempfile has to choose a directory name from

--------------------------------------------------------------------------
(* Generic text helpers.                                                   *)

RECURSIVE SeqsUpTo(_, _)
\* all sequences over S of length at most n
SeqsUpTo(S, n) ==
    IF n = 0 THEN {<<>>}
    ELSE LET shorter == SeqsUpTo(S, n - 1)
         IN shorter \cup {Append(s, c) : s \in {t \in shorter : Len(t) = n - 1}, c \in S}

RECURSIVE Repeat(_, _)
Repeat(c, n) == IF n = 0 THEN <<>> ELSE <<c>> \o Repeat(c, n - 1)

RECURSIVE Flatten(_)
\* "".join(parts) / the concatenation of a sequence of sequences
Flatten(parts) == IF parts = <<>> THEN <<>> ELSE Head(parts) \o Flatten(Tail(parts))

--------------------------------------------------------------------------
(* _hex_to_kml_color                                                       *)

LowerHexDigits == <<"0","1","2","3","4","5","6","7","8","9","a","b","c","d","e","f">>

RECURSIVE LStrip(_, _)
\* str.lstrip(c): every leading occurrence of c is removed
LStrip(s, c) == IF s # <<>> /\ Head(s) = c THEN LStrip(Tail(s), c) ELSE s

\* int(x) of the float x = num/den: truncation towards zero
IntTrunc(num, den) == IF num >= 0 THEN num \div den ELSE -((-num) \div den)

RECURSIVE HexOfNat(_)
\* the lowercase hexadecimal digits of n >= 0
HexOfNat(n) ==
    IF n < 16 THEN <<LowerHexDigits[n + 1]>>
    ELSE HexOfNat(n \div 16) \o <<LowerHexDigits[(n % 16) + 1]>>

\* format(n, "02x"): sign, then the digits zero-padded so that the whole is
\* at least two characters wide; never truncated
Format02x(n) ==
    IF n < 0 THEN <<"-">> \o HexOfNat(-n)
    ELSE LET d == HexOfNat(n) IN IF Len(d) < 2 THEN <<"0">> \o d ELSE d

FallbackHex == <<"F","F","F","F","F","F">>

Alpha(op) == IntTrunc(op * 255, OpacityDen)

HexToKmlColor(hex, op) ==
    LET stripped == LStrip(hex, "#")
        h == IF Len(stripped) # 6 THEN FallbackHex ELSE stripped
        r == SubSeq(h, 1, 2)
        g == SubSeq(h, 3, 4)
        b == SubSeq(h, 5, 6)
    IN Format02x(Alpha(op)) \o b \o g \o r

\* colour characters: a digit, an upper-case and a lower-case hex letter, and
\* a character that is no hex digit
ColorChars == {"0", "F", "a", "g"}

HexInputs ==
    {Repeat("#", k) \o s : k \in 0..MaxHashes, s \in SeqsUpTo(ColorChars, MaxHexLen)}

Opacities == (-MaxOpacity)..MaxOpacity

DefaultFillHex == <<"#","F","F","0","0","0","0">>
DefaultOutlineHex == <<"#","0","0","0","0","0","0">>

ShpCalls == 1..MaxCalls
DirNames == 1..MaxDirs

\* a call that has not started: no directory, nothing zipped, nothing returned
IdleCall == [pc |-> "idle", tmp |-> 0, zipped |-> <<>>, failed |-> "", result |-> <<>>]

IdleTmp == tmp_dirs = [n \in DirNames |-> 0] /\ shp_calls = [c \in ShpCalls |-> IdleCall]

IdleRing == ring = <<>> /\ buf = <<>> /\ ring_call = "none"
IdleEnc  == /\ features = <<>> /\ region = "QLD" /\ base_name = <<>>
            /\ kml_out = <<>> /\ shp_out = [called |-> FALSE]

InitColor ==
    /\ hex_color \in HexInputs
    /\ opacity \in Opacities
    /\ color_out = <<>>
    /\ IdleRing
    /\ IdleTmp
    /\ IdleEnc

HexToKmlColorCall ==
    /\ color_out' = HexToKmlColor(hex_color, opacity)
    /\ UNCHANGED <<hex_color, opacity, ringVars, encVars, tmpVars>>

NextColor == HexToKmlColorCall

SpecColor == InitColor /\ [][NextColor]_vars

--------------------------------------------------------------------------
(* _write_ring                                                             *)

\* coordinates are kept as the text they are printed as
V00 == <<"0", "0">>
V10 == <<"1", "0">>
V11 == <<"1", "1">>
Verts == {V00, V10, V11}

RingIsOpen(r) == r[1] # r[Len(r)]

\* mutant: the first vertex is appended whether or not the ring is closed
CloseRingAlways(r) == Append(r, r[1])

\* the ring list after lines 145-146: the first vertex is appended in place
\* when the ring is not closed
CloseRing(r) == IF RingIsOpen(r) THEN Append(r, r[1]) ELSE r

CoordLine(v) == <<"              ", v[1], ",", v[2], ",0">>

\* what lines 147-149 append to the buffer for the (closed) ring r
RingLines(r) ==
    <<<<"            <coordinates>">>>>
        \o [i \in 1..Len(r) |-> CoordLine(r[i])]
        \o <<<<"            </coordinates>">>>>

RingInputs == SeqsUpTo(Verts, MaxRingLen)

RingCallsIn(b) == Cardinality({i \in 1..Len(b) : b[i] = <<"            <coordinates>">>})

InitRing ==
    /\ ring \in RingInputs
    /\ buf = <<>>
    /\ ring_call = "none"
    /\ hex_color = DefaultFillHex /\ opacity = OpacityDen /\ color_out = <<>>
    /\ IdleEnc
    /\ IdleTmp

\* _write_ring(buf, ring): ring[0] of an empty list raises IndexError before
\* anything is written
WriteRingCall ==
    /\ RingCallsIn(buf) < MaxRingCalls
    /\ IF ring = <<>>
         THEN /\ ring_call' = "IndexError"
              /\ UNCHANGED <<ring, buf>>
         ELSE /\ ring' = CloseRing(ring)
              /\ buf' = buf \o RingLines(CloseRing(ring))
              /\ ring_call' = "returned"
    /\ UNCHANGED <<colorVars, encVars, tmpVars>>

NextRing == WriteRingCall

SpecRing == InitRing /\ [][NextRing]_vars

--------------------------------------------------------------------------
(* Python values of a property mapping, and the dict operations used.      *)

PyNone == [py |-> "None"]
PyStr(t) == [py |-> "str", text |-> t]
EmptyStr == PyStr(<<>>)

\* str(v), as an f-string formats v
StrOf(v) == IF v = PyNone THEN <<"N","o","n","e">> ELSE v.text

\* bool(v)
Truthy(v) == v # PyNone /\ v # EmptyStr

\* a property mapping is the sequence of its <<key, value>> items, in the
\* dict's order, with distinct keys
HasKey(p, k) == \E i \in 1..Len(p) : p[i][1] = k
ValueAt(p, k) == p[CHOOSE i \in 1..Len(p) : p[i][1] = k][2]

\* p.get(k, default)
GetOr(p, k, default) == IF HasKey(p, k) THEN ValueAt(p, k) ELSE default

\* p.get(k)
Get(p, k) == GetOr(p, k, PyNone)

EscapeChar(c) ==
    CASE c = "&" -> "&amp;"
      [] c = "<" -> "&lt;"
      [] c = ">" -> "&gt;"
      [] c = "\"" -> "&quot;"
      [] c = "'" -> "&#x27;"
      [] OTHER -> c

\* html.escape(t)
HtmlEscape(t) == [i \in 1..Len(t) |-> EscapeChar(t[i])]

--------------------------------------------------------------------------
(* generate_kml                                                            *)

DefaultOutlineWeight == <<"2">>
DefaultFolderName == <<"P","a","r","c","e","l","s">>

\* lines 91-98: the placemark's name
PlacemarkName(p, reg) ==
    IF reg = "QLD"
      THEN LET lot == Get(p, <<"lot">>)
               plan == Get(p, <<"plan">>)
           IN <<"Lot ">> \o StrOf(lot) \o <<" Plan ">> \o StrOf(plan)
      ELSE LET lot == Get(p, <<"lotnumber">>)
               sec == IF Truthy(Get(p, <<"sectionnumber">>))
                        THEN Get(p, <<"sectionnumber">>) ELSE EmptyStr
               plan == Get(p, <<"planlabel">>)
           IN <<"Lot ">> \o StrOf(lot) \o <<" ">>
                \o (IF Truthy(sec) THEN <<"Section ">> \o sec.text \o <<" ">> ELSE <<>>)
                \o StrOf(plan)

\* mutant: only null values are left out
RowShownUnlessNone(v) == v # PyNone

\* line 104: v not in ("", None)
RowShown(v) == ~(v = EmptyStr \/ v = PyNone)

DescRow(item) ==
    <<"<tr><th>">> \o HtmlEscape(item[1]) \o <<"</th><td>">>
        \o HtmlEscape(StrOf(item[2])) \o <<"</td></tr>">>

\* lines 101-105
DescRows(p) ==
    Flatten([i \in 1..Len(p) |-> IF RowShown(p[i][2]) THEN DescRow(p[i]) ELSE <<>>])

\* line 106
Description(p) == <<"<![CDATA[<table>">> \o DescRows(p) \o <<"</table>]]>">>

\* mutant: a MultiPolygon is treated as an unsupported type
KmlPolygonsPolygonOnly(geom) ==
    IF geom.type = "Polygon" THEN <<geom.coordinates>> ELSE <<>>

\* lines 115-118: the polygons of a geometry
KmlPolygons(geom) ==
    IF geom.type = "Polygon" THEN <<geom.coordinates>>
    ELSE IF geom.type = "MultiPolygon" THEN geom.coordinates
    ELSE <<>>

\* lines 128-131, for one hole
HoleLines(r) ==
    <<<<"          <innerBoundaryIs><LinearRing>">>>>
        \o RingLines(CloseRing(r))
        \o <<<<"          </LinearRing></innerBoundaryIs>">>>>

\* lines 124-132, for one polygon
PolygonLines(poly) ==
    <<<<"        <Polygon>">>, <<"          <outerBoundaryIs><LinearRing>">>>>
        \o RingLines(CloseRing(poly[1]))
        \o <<<<"          </LinearRing></outerBoundaryIs>">>>>
        \o Flatten([i \in 1..(Len(poly) - 1) |-> HoleLines(poly[i + 1])])
        \o <<<<"        </Polygon>">>>>

\* lines 90-137, for one feature
PlacemarkLines(feat, reg) ==
    LET p == feat.properties
        polygons == KmlPolygons(feat.geometry)
        multi == Len(polygons) > 1
    IN << <<"    <Placemark>">>,
          <<"      <name>">> \o HtmlEscape(PlacemarkName(p, reg)) \o <<"</name>">>,
          <<"      <styleUrl>#parcel</styleUrl>">>,
          <<"      <description>">> \o Description(p) \o <<"</description>">> >>
        \o (IF multi THEN <<<<"      <MultiGeometry>">>>> ELSE <<>>)
        \o Flatten([i \in 1..Len(polygons) |-> PolygonLines(polygons[i])])
        \o (IF multi THEN <<<<"      </MultiGeometry>">>>> ELSE <<>>)
        \o <<<<"    </Placemark>">>>>

\* the geometry after the call: _write_ring has closed, in place, every ring
\* of every polygon it was handed
GeometryAfterKml(geom) ==
    IF geom.type = "Polygon"
      THEN [geom EXCEPT !.coordinates =
              [i \in 1..Len(geom.coordinates) |-> CloseRing(geom.coordinates[i])]]
    ELSE IF geom.type = "MultiPolygon"
      THEN [geom EXCEPT !.coordinates =
              [j \in 1..Len(geom.coordinates) |->
                 [i \in 1..Len(geom.coordinates[j]) |-> CloseRing(geom.coordinates[j][i])]]]
    ELSE geom

FeaturesAfterKml(fs) ==
    [n \in 1..Len(fs) |-> [fs[n] EXCEPT !.geometry = GeometryAfterKml(fs[n].geometry)]]

\* lines 76-87 and 139: the document but for its placemarks
KmlHeader(fill_hex, fill_opacity, outline_hex, outline_weight, folder_name) ==
    << <<"<?xml version=\"1.0\" encoding=\"UTF-8\"?>">>,
       <<"<kml xmlns='http://www.opengis.net/kml/2.2'>">>,
       <<"  <Document><name>">> \o HtmlEscape(folder_name) \o <<"</name>">>,
       <<"    <Style id=\"parcel\">">>,
       <<"      <LineStyle><color>">> \o HexToKmlColor(outline_hex, OpacityDen)
           \o <<"</color><width>">> \o outline_weight \o <<"</width></LineStyle>">>,
       <<"      <PolyStyle><color>">> \o HexToKmlColor(fill_hex, fill_opacity)
           \o <<"</color></PolyStyle>">>,
       <<"    </Style>">> >>

KmlDocument(fs, reg, fill_hex, fill_opacity) ==
    KmlHeader(fill_hex, fill_opacity, DefaultOutlineHex, DefaultOutlineWeight,
              DefaultFolderName)
        \o Flatten([n \in 1..Len(fs) |-> PlacemarkLines(fs[n], reg)])
        \o <<<<"  </Document></kml>">>>>

GenerateKml ==
    /\ kml_out' = KmlDocument(features, region, hex_color, opacity)
    /\ features' = FeaturesAfterKml(features)
    /\ UNCHANGED <<hex_color, opacity, color_out, ringVars, region, base_name, shp_out,
                   tmpVars>>

--------------------------------------------------------------------------
(* generate_shapefile                                                      *)

DefaultBaseName == <<"p","a","r","c","e","l","s">>

\* str.replace(old, new) for one-character old and new
ReplaceChar(t, old, new) == [i \in 1..Len(t) |-> IF t[i] = old THEN new ELSE t[i]]

\* mutant: spaces are kept
SafeBaseSlashOnly(name) ==
    LET replaced == ReplaceChar(name, "/", "_")
    IN IF replaced = <<>> THEN DefaultBaseName ELSE replaced

\* line 172
SafeBase(name) ==
    LET replaced == ReplaceChar(ReplaceChar(name, "/", "_"), " ", "_")
    IN IF replaced = <<>> THEN DefaultBaseName ELSE replaced

\* lines 181-188: the arguments of w.record
RecordOf(p, reg) ==
    IF reg = "QLD"
      THEN <<GetOr(p, <<"lot">>, EmptyStr), EmptyStr, GetOr(p, <<"plan">>, EmptyStr)>>
      ELSE <<GetOr(p, <<"lotnumber">>, EmptyStr),
             GetOr(p, <<"sectionnumber">>, EmptyStr),
             GetOr(p, <<"planlabel">>, EmptyStr)>>

\* mutant: only the first polygon of a MultiPolygon is written
ShapePartsFirstPolygon(geom) ==
    IF geom.type = "Polygon" THEN geom.coordinates
    ELSE IF geom.type = "MultiPolygon"
      THEN (IF geom.coordinates = <<>> THEN <<>> ELSE geom.coordinates[1])
    ELSE <<>>

\* lines 195-201
ShapeParts(geom) ==
    IF geom.type = "Polygon" THEN geom.coordinates
    ELSE IF geom.type = "MultiPolygon" THEN Flatten(geom.coordinates)
    ELSE <<>>

\* lines 188-203: the writer calls made for one feature
WriterCalls(feat, reg) ==
    LET parts == ShapeParts(feat.geometry)
    IN <<[call |-> "record", args |-> RecordOf(feat.properties, reg)]>>
         \o (IF parts # <<>> THEN <<[call |-> "poly", args |-> parts]>> ELSE <<>>)

ArchiveExts == <<".shp", ".shx", ".dbf", ".prj">>

\* lines 215-218: the archive's entry names
ArchiveNames(safe) == [i \in 1..Len(ArchiveExts) |-> safe \o <<ArchiveExts[i]>>]

GenerateShapefile ==
    /\ shp_out' = [called |-> TRUE,
                   fields |-> <<"LOT", "SEC", "PLAN">>,
                   calls |-> Flatten([n \in 1..Len(features) |->
                                        WriterCalls(features[n], region)]),
                   names |-> ArchiveNames(SafeBase(base_name))]
    /\ UNCHANGED <<colorVars, ringVars, features, region, base_name, kml_out, tmpVars>>

Next == GenerateKml \/ GenerateShapefile

--------------------------------------------------------------------------
(* The inputs the encoders are run on.                                     *)

Regions == {"QLD", "NSW"}

QldKeys == {<<"lot">>, <<"plan">>}
NswKeys == {<<"lotnumber">>, <<"sectionnumber">>, <<"planlabel">>}

\* absent (null), empty, and two non-empty values, one with a character
\* that html.escape rewrites
PropValues == {PyNone, EmptyStr, PyStr(<<"7", "&">>), PyStr(<<"D", "P", "1">>)}

RECURSIVE Mappings(_)
\* every property mapping over some of the keys K, in every order
Mappings(K) ==
    {<<>>} \cup UNION {{<<<<k, v>>>> \o m : v \in PropValues, m \in Mappings(K \ {k})} : k \in K}

QldSample == <<<<<<"lot">>, PyStr(<<"3">>)>>, <<<<"plan">>, PyStr(<<"R", "P", "1">>)>>>>
NswSample == <<<<<<"lotnumber">>, PyStr(<<"4", "3">>)>>,
               <<<<"sectionnumber">>, PyStr(<<"2">>)>>,
               <<<<"planlabel">>, PyStr(<<"D", "P", "1">>)>>>>
SampleProps == {QldSample, NswSample}

OpenTriangle == <<V00, V10, V11>>
ClosedTriangle == <<V00, V10, V11, V00>>
SampleRings == {OpenTriangle, ClosedTriangle}

RECURSIVE RingLists(_)
\* the lists of exactly k sample rings
RingLists(k) ==
    IF k = 0 THEN {<<>>} ELSE {<<r>> \o rs : r \in SampleRings, rs \in RingLists(k - 1)}

RECURSIVE Groupings(_)
\* every way of cutting a non-empty list of rings into polygons of at least one ring
Groupings(rs) ==
    IF rs = <<>> THEN {<<>>}
    ELSE UNION {{<<SubSeq(rs, 1, j)>> \o g : g \in Groupings(SubSeq(rs, j + 1, Len(rs)))}
                 : j \in 1..Len(rs)}

Polygon(rings) == [type |-> "Polygon", coordinates |-> rings]
MultiPolygon(polys) == [type |-> "MultiPolygon", coordinates |-> polys]
\* a geometry of another type, and a feature without geometry (geom = {})
PointGeometry == [type |-> "Point", coordinates |-> V00]
NoGeometry == [type |-> "None", coordinates |-> <<>>]

\* the geometries of exactly k rings: every ring has a vertex and every
\* polygon has its outer ring
Geometries(k) ==
    {MultiPolygon(g) : g \in UNION {Groupings(rs) : rs \in RingLists(k)}}
      \cup (IF k = 0 THEN {PointGeometry, NoGeometry}
            ELSE {Polygon(rs) : rs \in RingLists(k)})

FeaturesOf(k, props) ==
    {[properties |-> p, geometry |-> g] : p \in props, g \in Geometries(k)}

RECURSIVE FeatureLists(_, _, _)
\* the lists of at most n features with at most `parts` rings in all
FeatureLists(n, parts, props) ==
    IF n = 0 THEN {<<>>}
    ELSE {<<>>} \cup
         UNION {{<<f>> \o rest : f \in FeaturesOf(k, props),
                                 rest \in FeatureLists(n - 1, parts - k, props)}
                 : k \in 0..parts}

\* fill_opacity = 0.5 (to the nearest step below)
DefaultFillOpacity == OpacityDen \div 2

IdleColor == hex_color = DefaultFillHex /\ opacity = DefaultFillOpacity /\ color_out = <<>>

\* feature lists of varied geometry
Init ==
    /\ features \in FeatureLists(MaxFeatures, MaxParts, SampleProps)
    /\ region \in Regions
    /\ base_name = DefaultBaseName
    /\ kml_out = <<>>
    /\ shp_out = [called |-> FALSE]
    /\ IdleColor
    /\ IdleRing
    /\ IdleTmp

Spec == Init /\ [][Next]_vars

\* one feature, of varied properties
InitProps ==
    /\ features \in {<<[properties |-> p, geometry |-> Polygon(<<ClosedTriangle>>)]>>
                       : p \in Mappings(QldKeys) \cup Mappings(NswKeys)}
    /\ region \in Regions
    /\ base_name = DefaultBaseName
    /\ kml_out = <<>>
    /\ shp_out = [called |-> FALSE]
    /\ IdleColor
    /\ IdleRing
    /\ IdleTmp

SpecProps == InitProps /\ [][Next]_vars

BaseChars == {"/", " ", "_", "p"}

\* varied base names
InitBase ==
    /\ features \in FeatureLists(1, 1, {QldSample})
    /\ region = "QLD"
    /\ base_name \in SeqsUpTo(BaseChars, MaxBaseLen)
    /\ kml_out = <<>>
    /\ shp_out = [called |-> FALSE]
    /\ IdleColor
    /\ IdleRing
    /\ IdleTmp

SpecBase == InitBase /\ [][Next]_vars

--------------------------------------------------------------------------
(* generate_shapefile, statement by statement: the temporary directory of  *)
(* line 170 and what each exit path leaves behind.  Any statement that     *)
(* touches the disk may raise; calls may overlap.                          *)

\* tempfile.mkdtemp: the names no existing directory has
FreeNames(dirs) == {n \in DirNames : dirs[n] = 0}

\* mutant: a name is taken without looking whether a directory has it
FreeNamesUnchecked(dirs) == DirNames

\* mutant: the directory is removed only when the block ends without an error
DirsAfterExitOnSuccess(dirs, c, exc) ==
    IF exc = "" THEN [n \in DirNames |-> IF dirs[n] = c THEN 0 ELSE dirs[n]] ELSE dirs

\* TemporaryDirectory.__exit__(exc, ...): the directory of call c is removed,
\* whether or not the block raised
DirsAfterExit(dirs, c, exc) == [n \in DirNames |-> IF dirs[n] = c THEN 0 ELSE dirs[n]]

InWith == {"with", "writer", "closed", "prj", "unwinding"}
Finished == {"returned", "raised"}

\* an exception raised inside the with block at `place`: the block is left
Raise(c, place) ==
    shp_calls' = [shp_calls EXCEPT ![c].pc = "unwinding", ![c].failed = place]

Advance(c, pc) == shp_calls' = [shp_calls EXCEPT ![c].pc = pc]

\* lines 167-170: a call starts; mkdtemp makes a directory under a name no
\* directory has, or raises (no name left, no space) before the block is entered
ShpEnter(c) ==
    /\ shp_calls[c].pc \in {"idle"} \cup Finished
    /\ \/ \E n \in FreeNames(tmp_dirs) :
            /\ tmp_dirs' = [tmp_dirs EXCEPT ![n] = c]
            /\ shp_calls' = [shp_calls EXCEPT ![c] = [IdleCall EXCEPT !.pc = "with", !.tmp = n]]
       \/ /\ shp_calls' = [shp_calls EXCEPT
                             ![c] = [IdleCall EXCEPT !.pc = "raised", !.failed = "mkdtemp"]]
          /\ UNCHANGED tmp_dirs
    /\ UNCHANGED <<colorVars, ringVars, encVars>>

\* lines 172-178: shapefile.Writer(base_path) and its fields
ShpNewWriter(c) ==
    /\ shp_calls[c].pc = "with"
    /\ Advance(c, "writer") \/ Raise(c, "writer")
    /\ UNCHANGED <<colorVars, ringVars, encVars, tmp_dirs>>

\* lines 180-205: the records, the shapes and w.close()
ShpWriteRecords(c) ==
    /\ shp_calls[c].pc = "writer"
    /\ Advance(c, "closed") \/ Raise(c, "records")
    /\ UNCHANGED <<colorVars, ringVars, encVars, tmp_dirs>>

\* lines 208-213: the .prj file
ShpWritePrj(c) ==
    /\ shp_calls[c].pc = "closed"
    /\ Advance(c, "prj") \/ Raise(c, "prj")
    /\ UNCHANGED <<colorVars, ringVars, encVars, tmp_dirs>>

\* lines 215-218: one zf.write into the in-memory buffer
ShpZipEntry(c) ==
    /\ shp_calls[c].pc = "prj"
    /\ Len(shp_calls[c].zipped) < Len(ArchiveExts)
    /\ \/ shp_calls' = [shp_calls EXCEPT ![c].zipped =
                          Append(@, ArchiveNames(SafeBase(base_name))[Len(@) + 1])]
       \/ Raise(c, "zip")
    /\ UNCHANGED <<colorVars, ringVars, encVars, tmp_dirs>>

\* line 219: return buf.getvalue() leaves the block with the value in hand
ShpGetValue(c) ==
    /\ shp_calls[c].pc = "prj"
    /\ Len(shp_calls[c].zipped) = Len(ArchiveExts)
    /\ Advance(c, "unwinding")
    /\ UNCHANGED <<colorVars, ringVars, encVars, tmp_dirs>>

\* line 170, __exit__: the directory is removed, then the call ends: it
\* returns the buffer's bytes, or the exception goes on to the caller and
\* the buffer is dropped with the frame
ShpExit(c) ==
    /\ shp_calls[c].pc = "unwinding"
    /\ tmp_dirs' = DirsAfterExit(tmp_dirs, c, shp_calls[c].failed)
    /\ shp_calls' = [shp_calls EXCEPT
                       ![c].pc = IF shp_calls[c].failed = "" THEN "returned" ELSE "raised",
                       ![c].result = IF shp_calls[c].failed = "" THEN shp_calls[c].zipped
                                     ELSE <<>>,
                       ![c].zipped = <<>>]
    /\ UNCHANGED <<colorVars, ringVars, encVars>>

InitTmp ==
    /\ features = <<>>
    /\ region = "QLD"
    /\ base_name = DefaultBaseName
    /\ kml_out = <<>>
    /\ shp_out = [called |-> FALSE]
    /\ IdleColor
    /\ IdleRing
    /\ IdleTmp

NextTmp ==
    \E c \in ShpCalls :
        \/ ShpEnter(c)
        \/ ShpNewWriter(c)
        \/ ShpWriteRecords(c)
        \/ ShpWritePrj(c)
        \/ ShpZipEntry(c)
        \/ ShpGetValue(c)
        \/ ShpExit(c)

SpecTmp == InitTmp /\ [][NextTmp]_vars

--------------------------------------------------------------------------
(* Claims about _hex_to_kml_color (checked under SpecColor).               *)

UpperHexLetters == {"A", "B", "C", "D", "E", "F"}
LowerHexChars == {LowerHexDigits[i] : i \in 1..16}
HexChars == LowerHexChars \cup UpperHexLetters

LowerChar(c) ==
    CASE c = "A" -> "a" [] c = "B" -> "b" [] c = "C" -> "c"
      [] c = "D" -> "d" [] c = "E" -> "e" [] c = "F" -> "f"
      [] OTHER -> c

LowerText(s) == [i \in 1..Len(s) |-> LowerChar(s[i])]

\* the colour with one leading '#', if any, removed
WithoutOneHash(hex) == IF hex # <<>> /\ Head(hex) = "#" THEN Tail(hex) ELSE hex

ValidColor(hex) ==
    LET h == WithoutOneHash(hex)
    IN Len(h) = 6 /\ \A i \in 1..6 : h[i] \in HexChars

OpacityInUnit(op) == 0 <= op /\ op <= OpacityDen

Called == color_out # <<>>

\* round(num/den), ties to the even integer
RoundHalfEven(num, den) ==
    LET fl == num \div den
        twice == 2 * (num - fl * den)
    IN IF twice < den THEN fl
       ELSE IF twice > den THEN fl + 1
       ELSE IF fl % 2 = 0 THEN fl ELSE fl + 1

Clamp255(n) == IF n < 0 THEN 0 ELSE IF n > 255 THEN 255 ELSE n

\* C1: for a valid 6-hex-digit colour (either case, with or without a
\* leading '#') and an opacity in [0,1] the result has length 8, all of its
\* characters are in [0-9a-f], and it is laid out alpha, blue, green, red;
\* "#FF0000" at 0.5 gives "7f0000ff".
C1_LowercaseAbgr ==
    (Called /\ ValidColor(hex_color) /\ OpacityInUnit(opacity)) =>
        LET h == WithoutOneHash(hex_color)
        IN /\ Len(color_out) = 8
           /\ \A i \in 1..Len(color_out) : color_out[i] \in LowerHexChars
           /\ SubSeq(color_out, 3, 4) = LowerText(SubSeq(h, 5, 6))
           /\ SubSeq(color_out, 5, 6) = LowerText(SubSeq(h, 3, 4))
           /\ SubSeq(color_out, 7, 8) = LowerText(SubSeq(h, 1, 2))
           /\ (hex_color = DefaultFillHex /\ 2 * opacity = OpacityDen)
                => color_out = <<"7","f","0","0","0","0","f","f">>

\* C2: for a malformed colour (after removing one leading '#', not exactly
\* 6 characters long or holding a non-hex character) the last six characters
\* of the result are those of the fallback FFFFFF, up to case.
C2_MalformedFallsBack ==
    (Called /\ ~ValidColor(hex_color)) =>
        /\ Len(color_out) >= 6
        /\ LowerText(SubSeq(color_out, Len(color_out) - 5, Len(color_out)))
             = LowerText(FallbackHex)

\* C9: for every opacity, also outside [0,1], the alpha component is
\* round(opacity * 255) clamped to [0,255] as exactly two lowercase hex
\* digits, so the result is exactly 8 characters long.
C9_AlphaClamped ==
    Called =>
        /\ Len(color_out) = 8
        /\ SubSeq(color_out, 1, 2)
             = Format02x(Clamp255(RoundHalfEven(opacity * 255, OpacityDen)))

--------------------------------------------------------------------------
(* Claims about _write_ring (checked under SpecRing).                      *)

\* the vertices of the ring written by the <coordinates> block `block`
EmittedRing(block) ==
    [i \in 1..(Len(block) - 2) |-> <<block[i + 1][2], block[i + 1][4]>>]

\* C3: the ring a returning _write_ring call emits has equal first and last
\* coordinates and is at least as long as the ring passed in; a ring that is
\* already closed is emitted, and left, unchanged (nothing is appended), and
\* an open ring gains exactly one vertex, a copy of its first.
C3_EmittedRingClosed ==
    [][(ring_call' = "returned" /\ buf' # buf) =>
         LET em == EmittedRing(SubSeq(buf', Len(buf) + 1, Len(buf')))
         IN /\ SubSeq(buf', 1, Len(buf)) = buf
            /\ em # <<>>
            /\ em[1] = em[Len(em)]
            /\ Len(em) >= Len(ring)
            /\ (ring[1] = ring[Len(ring)]) => (em = ring /\ ring' = ring)
            /\ (ring[1] # ring[Len(ring)]) => em = ring \o <<ring[1]>>]_vars

\* an open ring of the greatest length has been closed, and then written again
C3_Witness ==
    /\ ring_call = "returned"
    /\ Len(ring) = MaxRingLen + 1
    /\ RingCallsIn(buf) = 2
    /\ ring[2] # ring[1]

--------------------------------------------------------------------------
(* Claims about generate_kml.                                              *)

RECURSIVE Ascending(_)
\* the members of a finite set of integers, in increasing order
Ascending(S) ==
    IF S = {} THEN <<>>
    ELSE LET m == CHOOSE x \in S : \A y \in S : x <= y
         IN <<m>> \o Ascending(S \ {m})

LinesEqual(doc, line) == {i \in 1..Len(doc) : doc[i] = line}
CountLines(doc, line) == Cardinality(LinesEqual(doc, line))

PlacemarkCount(doc) == CountLines(doc, <<"    <Placemark>">>)

\* the lines of the n-th placemark of a document
PlacemarkOf(doc, n) ==
    SubSeq(doc, Ascending(LinesEqual(doc, <<"    <Placemark>">>))[n],
                Ascending(LinesEqual(doc, <<"    </Placemark>">>))[n])

\* what stands between the first and the last chunk of a line
Inner(line) == SubSeq(line, 2, Len(line) - 1)

KmlReturned == kml_out # <<>>

\* C4: generate_kml does not change the caller's feature list: every ring
\* has the same vertices and length after a call as before it.
C4_FeaturesUntouched == [][features' = features]_vars

\* a value of the property mapping for key k, with a missing key read as ""
Resolved(p, k) == IF HasKey(p, k) THEN StrOf(ValueAt(p, k)) ELSE <<>>

RegionKeys(reg) ==
    IF reg = "QLD" THEN QldKeys ELSE NswKeys

\* every key of the region that the mapping holds has a string for value
KeysHoldText(p, reg) ==
    \A k \in RegionKeys(reg) : HasKey(p, k) => ValueAt(p, k) # PyNone

NameTemplate(p, reg) ==
    IF reg = "QLD"
      THEN <<"Lot ">> \o Resolved(p, <<"lot">>) \o <<" Plan ">> \o Resolved(p, <<"plan">>)
      ELSE <<"Lot ">> \o Resolved(p, <<"lotnumber">>) \o <<" ">>
             \o (IF Resolved(p, <<"sectionnumber">>) # <<>>
                   THEN <<"Section ">> \o Resolved(p, <<"sectionnumber">>) \o <<" ">>
                   ELSE <<>>)
             \o Resolved(p, <<"planlabel">>)

\* C5: the placemark name is the region's template applied to lot, section
\* and plan, each missing key resolved to the empty string: QLD
\* "Lot {lot} Plan {plan}", NSW "Lot {lot} " then "Section {section} " only
\* when section is non-empty, then {plan}.
C5_NameFromTemplate ==
    KmlReturned =>
        /\ PlacemarkCount(kml_out) = Len(features)
        /\ \A n \in 1..Len(features) :
             KeysHoldText(features[n].properties, region) =>
               PlacemarkOf(kml_out, n)[2]
                 = <<"      <name>">>
                     \o HtmlEscape(NameTemplate(features[n].properties, region))
                     \o <<"</name>">>

PolygonsExpected(geom) ==
    CASE geom.type = "Polygon" -> 1
      [] geom.type = "MultiPolygon" -> Len(geom.coordinates)
      [] OTHER -> 0

\* C6: the placemark of a feature holds as many Polygon elements as its
\* geometry has polygons (1 for a Polygon, n for a MultiPolygon of n, 0 for
\* any other or absent type), wrapped in one MultiGeometry element exactly
\* when there are more than one; a feature of unsupported type is still a
\* placemark with its name and description.
C6_PolygonElements ==
    KmlReturned =>
        /\ PlacemarkCount(kml_out) = Len(features)
        /\ \A n \in 1..Len(features) :
             LET pm == PlacemarkOf(kml_out, n)
                 polys == LinesEqual(pm, <<"        <Polygon>">>)
                 ends == LinesEqual(pm, <<"        </Polygon>">>)
                 opens == LinesEqual(pm, <<"      <MultiGeometry>">>)
                 closes == LinesEqual(pm, <<"      </MultiGeometry>">>)
                 wrapped == Cardinality(polys) > 1
             IN /\ Cardinality(polys) = PolygonsExpected(features[n].geometry)
                /\ Cardinality(ends) = Cardinality(polys)
                /\ Cardinality(opens) = (IF wrapped THEN 1 ELSE 0)
                /\ Cardinality(closes) = (IF wrapped THEN 1 ELSE 0)
                /\ \A o \in opens, c \in closes, i \in polys \cup ends : o < i /\ i < c
                /\ Head(pm[2]) = "      <name>"
                /\ Head(pm[4]) = "      <description>"
                /\ pm[Len(pm)] = <<"    </Placemark>">>

\* a MultiPolygon of two polygons and a feature of another type were encoded
C6_Witness ==
    /\ KmlReturned
    /\ \E n \in 1..Len(features) :
         /\ features[n].geometry.type = "MultiPolygon"
         /\ Len(features[n].geometry.coordinates) = 2
    /\ \E n \in 1..Len(features) : features[n].geometry.type = "Point"

ShownItems(p) == SelectSeq(p, LAMBDA item : item[2] # PyNone /\ item[2] # EmptyStr)

RowExpected(item) ==
    <<"<tr><th>">> \o HtmlEscape(item[1]) \o <<"</th><td>">>
        \o HtmlEscape(item[2].text) \o <<"</td></tr>">>

\* C8: the description table holds no row for a property whose value is the
\* empty string or absent (null), and exactly one row, in property order,
\* for every other property.
C8_RowsForNonEmpty ==
    KmlReturned =>
        \A n \in 1..Len(features) :
          LET shown == ShownItems(features[n].properties)
          IN Inner(PlacemarkOf(kml_out, n)[4])
               = <<"<![CDATA[<table>">>
                   \o Flatten([k \in 1..Len(shown) |-> RowExpected(shown[k])])
                   \o <<"</table>]]>">>

\* a mapping with an empty value, a null value... and a non-empty one was encoded
C8_Witness ==
    /\ KmlReturned
    /\ \E i, j \in 1..Len(features[1].properties) :
         /\ i < j
         /\ features[1].properties[i][2] \in {EmptyStr, PyNone}
         /\ features[1].properties[j][2] \notin {EmptyStr, PyNone}

--------------------------------------------------------------------------
(* Claims about generate_shapefile.                                        *)

RECURSIVE SumOf(_)
SumOf(ns) == IF ns = <<>> THEN 0 ELSE Head(ns) + SumOf(Tail(ns))

RingCount(geom) ==
    CASE geom.type = "Polygon" -> Len(geom.coordinates)
      [] geom.type = "MultiPolygon" ->
           SumOf([j \in 1..Len(geom.coordinates) |-> Len(geom.coordinates[j])])
      [] OTHER -> 0

\* the rings of a geometry, in order
RingsInOrder(geom) ==
    CASE geom.type = "Polygon" -> geom.coordinates
      [] geom.type = "MultiPolygon" ->
           LET polys == geom.coordinates
               \* the polygon and the place in it of the m-th ring
               before(j) == SumOf([i \in 1..(j - 1) |-> Len(polys[i])])
               polyOf(m) == CHOOSE j \in 1..Len(polys) :
                               before(j) < m /\ m <= before(j) + Len(polys[j])
           IN [m \in 1..RingCount(geom) |-> polys[polyOf(m)][m - before(polyOf(m))]]
      [] OTHER -> <<>>

RecordCalls(calls) == {i \in 1..Len(calls) : calls[i].call = "record"}

\* the writer calls made for the n-th record: from it up to the next record
CallsOfRecord(calls, n) ==
    LET at == Ascending(RecordCalls(calls))
    IN SubSeq(calls, at[n], IF n < Len(at) THEN at[n + 1] - 1 ELSE Len(calls))

\* C10: one attribute record is written per feature, in input order,
\* whatever the geometry type; the parts written for a Polygon are its ring
\* list, those for a MultiPolygon all rings of all its polygons in order
\* (as many as the polygons' ring counts sum to), and a feature of another
\* type gets no shape part but still its record.
C10_RecordPerFeature ==
    [][(shp_out' # shp_out) =>
         LET calls == shp_out'.calls
         IN /\ Cardinality(RecordCalls(calls)) = Len(features)
            /\ calls # <<>> => calls[1].call = "record"
            /\ \A n \in 1..Len(features) :
                 LET mine == CallsOfRecord(calls, n)
                     geom == features[n].geometry
                 IN /\ mine[1].args = RecordOf(features[n].properties, region)
                    /\ IF RingCount(geom) = 0
                         THEN Len(mine) = 1
                         ELSE /\ Len(mine) = 2
                              /\ mine[2].call = "poly"
                              /\ Len(mine[2].args) = RingCount(geom)
                              /\ mine[2].args = RingsInOrder(geom)]_vars

\* a MultiPolygon of two polygons and a feature of another type were written
C10_Witness ==
    /\ shp_out.called
    /\ Len(features) = 2
    /\ features[1].geometry.type = "Point"
    /\ features[2].geometry.type = "MultiPolygon"
    /\ Len(features[2].geometry.coordinates) = 2
    /\ Len(shp_out.calls) = 3

\* C11: when a generate_shapefile call has ended, by return or by an error
\* raised while making the writer, writing records and shapes, writing the
\* .prj file or zipping, no temporary directory is left that it made; a call
\* that failed returned no archive bytes (a call that returned gave all four
\* entries); and no two calls are ever inside the same temporary directory.
C11_ScratchReleased ==
    \A c \in ShpCalls :
        LET k == shp_calls[c]
        IN /\ k.pc \in Finished => \A n \in DirNames : tmp_dirs[n] # c
           /\ k.pc = "raised" => (k.failed # "" /\ k.result = <<>>)
           /\ k.pc = "returned" =>
                (k.failed = "" /\ k.result = ArchiveNames(SafeBase(base_name)))
           /\ k.pc \in InWith =>
                /\ tmp_dirs[k.tmp] = c
                /\ \A d \in ShpCalls \ {c} :
                     shp_calls[d].pc \in InWith => shp_calls[d].tmp # k.tmp

\* one call failed while zipping and ended, and another then returned an
\* archive made in a directory of the same name
C11_Witness ==
    \E c, d \in ShpCalls :
        /\ shp_calls[c].pc = "raised"
        /\ shp_calls[c].failed = "zip"
        /\ shp_calls[d].pc = "returned"
        /\ shp_calls[d].tmp = shp_calls[c].tmp
        /\ \A n \in DirNames : tmp_dirs[n] = 0

====
